---------------------------- MODULE Spec2Model ----------------------------
(***************************************************************************)
(* A model of the semantic retrieval engine of the company chatbot:        *)
(* CompanyChatbot in src/chatbot.py and the /chat handler in src/app.py.   *)
(*                                                                         *)
(* Texts are TLA+ strings.  A similarity score is an integer number of     *)
(* hundredths (0.30 is 30): the code only compares scores with each other  *)
(* and with the threshold, and no float lies strictly between the double   *)
(* 0.30 and the real number 0.3.  An embedding vector is represented by    *)
(* the text the provider encoded; the cosine similarities the provider     *)
(* and sklearn yield for one question are an input of the call.            *)
(***************************************************************************)
EXTENDS Integers, Sequences, FiniteSets, TLC

(***************************************************************************)
(* Python str operations used by the code.                                 *)
(***************************************************************************)

\* str.startswith(p)
StartsWith(s, p) == Len(s) >= Len(p) /\ SubSeq(s, 1, Len(p)) = p

\* s[k:]
DropPrefix(s, k) == SubSeq(s, k + 1, Len(s))

\* the whitespace characters str.strip() removes (those the model's texts use)
IsSpace(c) == c \in {" ", "\t", "\n", "\r"}

\* the positions of the characters of s that are not blank
Inked(s) == {i \in 1..Len(s) : ~IsSpace(SubSeq(s, i, i))}

\* str.strip(): from the first to the last character that is not blank
Strip(s) ==
    LET inked == Inked(s)
    IN  IF inked = {} THEN ""
        ELSE SubSeq(s, CHOOSE i \in inked : \A j \in 1..(i - 1) : j \notin inked,
                       CHOOSE i \in inked : \A j \in (i + 1)..Len(s) : j \notin inked)

\* sub in s
Contains(s, sub) ==
    \E i \in 1..(Len(s) - Len(sub) + 1) : SubSeq(s, i, i + Len(sub) - 1) = sub

\* new after every character of s
RECURSIVE Interleaved(_, _)
Interleaved(s, new) ==
    IF Len(s) = 0 THEN ""
    ELSE IF Len(s) = 1 THEN s \o new
    ELSE Interleaved(SubSeq(s, 1, Len(s) \div 2), new)
         \o Interleaved(SubSeq(s, Len(s) \div 2 + 1, Len(s)), new)

\* where old occurs in s
Occurrences(s, old) ==
    {i \in 1..(Len(s) - Len(old) + 1) : SubSeq(s, i, i + Len(old) - 1) = old}

\* str.replace(old, new): the occurrences of old are taken left to right and
\* do not overlap; an empty old occurs before every character and at the end
RECURSIVE Replace(_, _, _)
Replace(s, old, new) ==
    IF old = "" THEN new \o Interleaved(s, new)
    ELSE IF Occurrences(s, old) = {} THEN s
    ELSE LET first == CHOOSE i \in Occurrences(s, old) : \A j \in Occurrences(s, old) : i <= j
         IN  SubSeq(s, 1, first - 1) \o new
             \o Replace(SubSeq(s, first + Len(old), Len(s)), old, new)

UpperLetters == "ABCDEFGHIJKLMNOPQRSTUVWXYZ"
LowerLetters == "abcdefghijklmnopqrstuvwxyz"

LowerChar(c) ==
    IF \E i \in 1..26 : SubSeq(UpperLetters, i, i) = c
    THEN LET i == CHOOSE j \in 1..26 : SubSeq(UpperLetters, j, j) = c
         IN  SubSeq(LowerLetters, i, i)
    ELSE c

\* str.lower(), character by character
RECURSIVE Lower(_)
Lower(s) ==
    IF Len(s) <= 1 THEN LowerChar(s)
    ELSE Lower(SubSeq(s, 1, Len(s) \div 2)) \o Lower(SubSeq(s, Len(s) \div 2 + 1, Len(s)))

\* sep.join(items)
RECURSIVE Join(_, _)
Join(sep, items) ==
    IF items = <<>> THEN ""
    ELSE IF Len(items) = 1 THEN items[1]
    ELSE items[1] \o sep \o Join(sep, Tail(items))

\* [x] * n
Repeat(x, n) == [i \in 1..n |-> x]

(***************************************************************************)
(* The Answer Extractor: _extract_answer_from_chunk.                       *)
(***************************************************************************)

\* patterns_to_remove, in the order of the source
patterns_to_remove ==
    <<
        "Client review feedback testimonial customer experience story ",
        "Contact details batao ",
        "Contact kya hai ",
        "Company name kya hai answer ",
        "Company ka naam hai ",
        "Company ka naam kya hai answer ",
        "Naam kya hai company ka answer ",
        "What is the company name answer ",
        "Company name is ",
        "Name of the company is ",
        "Aap kya services dete hain answer ",
        "Services kya hain answer ",
        "Kya services dete hain ",
        "What is the company name ",
        "Company name information ",
        "The company name is ",
        "Name of the company ",
        "Company name ",
        "Company description ",
        "About the company ",
        "Who we are ",
        "About us ",
        "Who are you ",
        "Tum kon ho ",
        "Aap kon hain ",
        "Contact information ",
        "Contact details ",
        "How to contact ",
        "What services do you provide ",
        "Services we provide ",
        "Services offered ",
        "Company k rules kya hain ",
        "Rules kya hain company ke ",
        "What are the company rules ",
        "Company rules and policies ",
        "Company policies ",
        "Company values ",
        "Payment methods ",
        "Service ",
        "Tell me about your company description ",
        "Aapki company kya karti hai description ",
        "What does your company do description ",
        "Company overview description ",
        "Company founded in ",
        "Founded year ",
        "When was the company founded ",
        "Aapki company kab bani ",
        "Company kab bani ",
        "Team size ",
        "Number of team members ",
        "How big is your team ",
        "Aapke team mein kitne log hain ",
        "Team mein kitne log hain ",
        "Office address ",
        "Office location ",
        "Where is your office ",
        "Aapka office kahan hai ",
        "Office kahan hai ",
        "Yes we work with clients from ",
        "International projects ",
        "Do you work internationally yes ",
        "Aap international projects karte hain haan ",
        "International projects haan ",
        "Portfolio ",
        "Do you have a portfolio yes ",
        "Portfolio website ",
        "Kya aapke paas portfolio hai haan ",
        "Aapne kaun se projects complete kiye hain ",
        "What projects have you completed ",
        "Kya aap websites banate hain ",
        "Kya aap mobile apps banate hain ",
        "Kya aap AI systems develop karte hain ",
        "Kya aap cloud services dete hain ",
        "Kya aap UI/UX design karte hain ",
        "What are your prices ",
        "How much does it cost ",
        "What is your pricing model ",
        "Kitna paisa lagega ",
        "Price kya hai ",
        "Pricing model kya hai ",
        "How experienced is your team ",
        "Aapki team kitni experienced hai ",
        "Team structure kya hai ",
        "What is your team structure ",
        "How can I contact you ",
        "Aap se kaise contact kar sakte hain ",
        "Kya aapke paas WhatsApp hai ",
        "Kya hum call par baat kar sakte hain ",
        "What services do you offer ",
        "Which technologies do you use ",
        "Do you provide customer support ",
        "Development kaise hoti hai ",
        "Project kitne time mein complete hoga ",
        "Delivery time kya hai ",
        "Typical timeline kya hai ",
        "Aap kaun se technologies use karte hain ",
        "Kya aap hosting provide karte hain ",
        "Project process development workflow steps ",
        "How does your process work development ",
        "Development process workflow steps ",
        "Aapka development process kya hai steps ",
        "Development kaise hoti hai process ",
        "Aap projects kaise handle karte hain development process ",
        "Development methodology process workflow ",
        "What is your development methodology process ",
        "Project process Urdu ",
        "Development process Urdu ",
        "Will I get source code ",
        "Kya mujhe source code milega ",
        "Do you give documentation ",
        "Kya aap documentation dete hain ",
        "Project timeline delivery time ",
        "Do you provide hosting ",
        "Do you provide maintenance ",
        "Kya aap maintenance provide karte hain ",
        "How many revisions do you offer ",
        "Kitne revisions milte hain ",
        "Do you take advance payment ",
        "Kya aap advance payment lete hain ",
        "Do you provide invoice ",
        "Do you give invoice ",
        "Kya aap invoice dete hain ",
        "Do you sign NDA ",
        "Kya aap NDA sign karte hain ",
        "Support policy kya hai ",
        "international ",
        "Do you accept international payments ",
        "Kya aap international payments accept karte hain ",
        "Kaun se payment methods accept hain ",
        "Payment kaise karni hai ",
        "What payment methods do you accept ",
        "How do I pay ",
        "Payment methods accept hain ",
        "Kya aapke paas packages hain ",
        "Kya aap jaldi delivery kar sakte hain ",
        "Kya aapke paas dedicated developers hain ",
        "Kya main monthly developers hire kar sakta hoon ",
        "Kya aap email support dete hain ",
        "Kya aap business automation karte hain ",
        "Do you build websites ",
        "Do you create mobile apps ",
        "Do you develop AI systems ",
        "Can you automate my business ",
        "Do you provide cloud services ",
        "Do you do UI/UX design ",
        "Can you develop blockchain solutions ",
        "Tell me about your AI services ",
        "Services list ",
        "Kya services dete hain ",
        "What services list do you offer ",
        "Company services list provided ",
        "All services we provide list ",
        "Services offered by company ",
        "Aapka process kya hai development workflow ",
        "Process kya hai development steps ",
        "How do you handle projects development process ",
        "Project handling process development workflow ",
        "About company information description ",
        "Company details description overview ",
        "Company information description ",
        "Tell me company description ",
        "Kya aap invoice provide karte hain ",
        "Invoice provide karte hain ",
        "Do you send invoice ",
        "Kya aap documentation provide karte hain ",
        "Documentation provide karte hain ",
        "Do you provide documentation "
    >>

\* sorted(key=len, reverse=True) is a stable sort: pattern i comes after every
\* longer pattern and after every pattern of its length that is listed before it
RankByLenDesc(ps, i) ==
    1 + Cardinality({j \in 1..Len(ps) :
                        \/ Len(ps[j]) > Len(ps[i])
                        \/ Len(ps[j]) = Len(ps[i]) /\ j < i})

SortedByLenDesc(ps) ==
    [r \in 1..Len(ps) |-> ps[CHOOSE i \in 1..Len(ps) : RankByLenDesc(ps, i) = r]]

\* the prefixes tried in the order they are listed, not longest first
PatternsInListedOrder == patterns_to_remove

\* the prefixes tried shortest first: reverse=True left out
PatternsShortestFirst ==
    LET longest_first == SortedByLenDesc(patterns_to_remove)
    IN  [i \in 1..Len(longest_first) |-> longest_first[Len(longest_first) + 1 - i]]

\* sorted(patterns_to_remove, key=len, reverse=True)
sorted_patterns == SortedByLenDesc(patterns_to_remove)

\* the for loop with its break: the first pattern of the sorted list that the
\* text starts with is cut off and the rest stripped; no match leaves the text
StripFirstMatch(answer) ==
    LET matching == {i \in 1..Len(sorted_patterns) : StartsWith(answer, sorted_patterns[i])}
    IN  IF matching = {} THEN answer
        ELSE LET first == CHOOSE i \in matching : \A j \in matching : i <= j
             IN  Strip(DropPrefix(answer, Len(sorted_patterns[first])))

\* the extractor without its last line: the stripped remainder, empty or not
ExtractWithoutFailOpen(chunk) == StripFirstMatch(chunk)

\* _extract_answer_from_chunk(chunk)
extract_answer_from_chunk(chunk) ==
    LET answer == StripFirstMatch(chunk)
    IN  IF answer # "" THEN answer ELSE chunk

(***************************************************************************)
(* The company record.  A dict is a function whose domain holds the keys   *)
(* that are present; faq_answers, whose iteration order matters, is the    *)
(* sequence of its (key, answer) items.  Values are strings and lists.     *)
(***************************************************************************)

\* {} (also what load_company_data returns for a missing or invalid file)
EmptyDict == <<>>

\* d.get(k, default)
Get(d, k, default) == IF k \in DOMAIN d THEN d[k] ELSE default

\* an f-string f"<lead-in>{payload}": the chunk text, with the two parts it
\* was put together from kept beside it
Phrase(lead, payload) == [text |-> lead \o payload, lead |-> lead, payload |-> payload]

\* what one field group contributes: the chunks appended (as phrases), the
\* metadata entries appended, and per chunk the type tag of the group that
\* appended it
Emitted(c, m) ==
    [phrases |-> c, metadata |-> m, origin |-> [i \in 1..Len(c) |-> m[1].type]]

Nothing == [phrases |-> <<>>, metadata |-> <<>>, origin |-> <<>>]

Both(a, b) ==
    [phrases  |-> a.phrases \o b.phrases,
     metadata |-> a.metadata \o b.metadata,
     origin   |-> a.origin \o b.origin]

(***************************************************************************)
(* The Chunk Builder: _build_dataset_chunks, one operator per field group  *)
(* in the order of the source.                                             *)
(***************************************************************************)

\* data.get('company_name', '')
CompanyNameOf(data) == Get(data, "company_name", "")

NameChunks(data) ==
    LET company_name == CompanyNameOf(data)
    IN  IF company_name # ""
        THEN Emitted(<<
                  Phrase("What is the company name answer ", company_name),
                  Phrase("Company name kya hai answer ", company_name),
                  Phrase("Company ka naam kya hai answer ", company_name),
                  Phrase("Naam kya hai company ka answer ", company_name),
                  Phrase("Company name is ", company_name),
                  Phrase("The company name is ", company_name)
               >>, Repeat([type |-> "company_name"], 6))
        ELSE Nothing

DescriptionChunks(data) ==
    LET desc == Get(data, "company_description", "")
    IN  IF desc # ""
        THEN Emitted(<<
                  Phrase("Company description ", desc),
                  Phrase("About the company ", desc),
                  Phrase("Who we are ", desc),
                  Phrase("About us ", desc),
                  Phrase("Who are you ", desc),
                  Phrase("Tum kon ho ", desc),
                  Phrase("Aap kon hain ", desc),
                  Phrase("Tell me about your company description ", desc),
                  Phrase("Aapki company kya karti hai description ", desc),
                  Phrase("What does your company do description ", desc),
                  Phrase("Company overview description ", desc),
                  Phrase("About company information description ", desc),
                  Phrase("Company details description overview ", desc),
                  Phrase("Company information description ", desc),
                  Phrase("Tell me company description ", desc)
               >>, Repeat([type |-> "company_description"], 16))
        ELSE Nothing

FoundedChunks(data) ==
    LET founded == Get(data, "founded", "")
    IN  IF founded # ""
        THEN Emitted(<<
                  Phrase("Company founded in ", founded),
                  Phrase("Founded year ", founded),
                  Phrase("When was the company founded ", founded),
                  Phrase("Aapki company kab bani ", founded),
                  Phrase("Company kab bani ", founded)
               >>, Repeat([type |-> "founded"], 5))
        ELSE Nothing

TeamSizeChunks(data) ==
    LET team_size == Get(data, "team_size", "")
    IN  IF team_size # ""
        THEN Emitted(<<
                  Phrase("Team size ", team_size),
                  Phrase("Number of team members ", team_size),
                  Phrase("How big is your team ", team_size),
                  Phrase("Aapke team mein kitne log hain ", team_size),
                  Phrase("Team mein kitne log hain ", team_size)
               >>, Repeat([type |-> "team_size"], 5))
        ELSE Nothing

InternationalChunks(data) ==
    LET countries == Join(", ", Get(data, "countries_served", <<>>))
    IN  IF Get(data, "countries_served", <<>>) # <<>>
        THEN Emitted(<<
                  Phrase("Yes we work with clients from ", countries),
                  Phrase("International projects ", countries),
                  Phrase("Do you work internationally yes ", countries),
                  Phrase("Aap international projects karte hain haan ", countries),
                  Phrase("International projects haan ", countries)
               >>, Repeat([type |-> "international"], 5))
        ELSE Nothing

PortfolioChunks(data) ==
    LET portfolio      == Get(data, "portfolio", EmptyDict)
        portfolio_link == Get(portfolio, "portfolio_link", "")
        portfolio_msg  == Get(portfolio, "portfolio_message_en", "")
    IN  IF portfolio_link # ""
        THEN Emitted(<<
                  Phrase("Portfolio ", portfolio_msg \o " " \o portfolio_link),
                  Phrase("Do you have a portfolio yes ", portfolio_link),
                  Phrase("Portfolio website ", portfolio_link),
                  Phrase("Kya aapke paas portfolio hai haan ", portfolio_link),
                  Phrase("Aapne kaun se projects complete kiye hain ", portfolio_link),
                  Phrase("What projects have you completed ", portfolio_link)
               >>, Repeat([type |-> "portfolio"], 6))
        ELSE Nothing

ContactChunks(data) ==
    LET contact == Get(data, "contact", EmptyDict)
        email   == Get(contact, "email", "")
        phone   == Get(contact, "phone", "")
        address == Get(contact, "address", "")
        website == Get(contact, "website", "")
        contact_full == "Email " \o email \o " Phone " \o phone
                        \o " Address " \o address \o " Website " \o website
    IN  IF DOMAIN contact # {}
        THEN Both(Emitted(<<
                  Phrase("Contact information ", contact_full),
                  Phrase("Contact details ", contact_full),
                  Phrase("How to contact ", contact_full),
                  Phrase("Contact details batao ", contact_full),
                  Phrase("Contact kya hai ", contact_full)
               >>, Repeat([type |-> "contact"], 5)),
               IF address # ""
               THEN Emitted(<<
                  Phrase("Office address ", address),
                  Phrase("Office location ", address),
                  Phrase("Where is your office ", address),
                  Phrase("Aapka office kahan hai ", address),
                  Phrase("Office kahan hai ", address)
                      >>, Repeat([type |-> "address"], 5))
               ELSE Nothing)
        ELSE Nothing

\* [s.get('name', '') for s in services_list if s.get('name')]
RECURSIVE ServiceNames(_)
ServiceNames(services_list) ==
    IF services_list = <<>> THEN <<>>
    ELSE (IF Get(Head(services_list), "name", "") # ""
          THEN <<Get(Head(services_list), "name", "")>> ELSE <<>>)
         \o ServiceNames(Tail(services_list))

ServicesListChunks(services_list) ==
    LET service_names == ServiceNames(services_list)
        services_str  == Join(", ", service_names)
    IN  IF service_names # <<>>
        THEN Emitted(<<
                  Phrase("Services offered ", services_str),
                  Phrase("What services do you provide ", services_str),
                  Phrase("Services we provide ", services_str),
                  Phrase("What services do you offer ", services_str),
                  Phrase("Aap kya services dete hain answer ", services_str),
                  Phrase("Services kya hain answer ", services_str),
                  Phrase("Kya services dete hain answer ", services_str),
                  Phrase("Aap kya services dete hain ", services_str),
                  Phrase("Kya services dete hain ", services_str),
                  Phrase("Services list ", services_str),
                  Phrase("What services list do you offer ", services_str),
                  Phrase("Company services list provided ", services_str),
                  Phrase("All services we provide list ", services_str),
                  Phrase("Services offered by company ", services_str)
               >>, Repeat([type |-> "services_list"], 13))
        ELSE Nothing

\* one pass of the loop over services_list
ServiceChunks(service) ==
    LET service_name    == Get(service, "name", "")
        service_details == Get(service, "details", "")
        sub_list        == Get(service, "sub_services", <<>>)
        sub_services    == Join(", ", SubSeq(sub_list, 1, IF Len(sub_list) < 10 THEN Len(sub_list) ELSE 10))
    IN  Both(IF service_name # "" /\ service_details # ""
             THEN Emitted(
                    <<Phrase("Service ", service_name \o " " \o service_details)>>
                    \o (IF Contains(service_name, "Web") \/ Contains(Lower(service_name), "website")
                        THEN <<Phrase("Kya aap websites banate hain ", service_details)>> ELSE <<>>)
                    \o (IF Contains(service_name, "Mobile") \/ Contains(Lower(service_name), "app")
                        THEN <<Phrase("Kya aap mobile apps banate hain ", service_details)>> ELSE <<>>)
                    \o (IF Contains(service_name, "AI") \/ Contains(service_name, "Artificial Intelligence")
                        THEN <<Phrase("Kya aap AI systems develop karte hain ", service_details)>> ELSE <<>>)
                    \o (IF Contains(service_name, "Cloud")
                        THEN <<Phrase("Kya aap cloud services dete hain ", service_details)>> ELSE <<>>)
                    \o (IF Contains(service_name, "UI/UX") \/ Contains(service_name, "Design")
                        THEN <<Phrase("Kya aap UI/UX design karte hain ", service_details)>> ELSE <<>>),
                    <<[type |-> "service", service_name |-> service_name]>>)
             ELSE Nothing,
             IF sub_list # <<>>
             THEN Emitted(<<Phrase(service_name \o " includes ", sub_services)>>,
                          <<[type |-> "sub_services", service_name |-> service_name]>>)
             ELSE Nothing)

RECURSIVE EachServiceChunks(_)
EachServiceChunks(services_list) ==
    IF services_list = <<>> THEN Nothing
    ELSE Both(ServiceChunks(Head(services_list)), EachServiceChunks(Tail(services_list)))

ServicesChunks(data) ==
    LET services_list == Get(data, "services", <<>>)
    IN  IF services_list # <<>>
        THEN Both(ServicesListChunks(services_list), EachServiceChunks(services_list))
        ELSE Nothing

ValuesChunks(data) ==
    LET additional == Get(data, "additional_info", EmptyDict)
        values_str == Join(", ", Get(additional, "company_values", <<>>))
    IN  IF Get(additional, "company_values", <<>>) # <<>>
        THEN Emitted(<<
                  Phrase("Company values ", values_str),
                  Phrase("Company rules and policies ", values_str),
                  Phrase("What are the company rules ", values_str),
                  Phrase("Company policies ", values_str),
                  Phrase("Company k rules kya hain ", values_str),
                  Phrase("Rules kya hain company ke ", values_str)
               >>, Repeat([type |-> "company_values"], 6))
        ELSE Nothing

PaymentChunks(data) ==
    LET price_policy    == Get(data, "price_policy", EmptyDict)
        payment_methods == Join(", ", Get(price_policy, "payment_methods", <<>>))
    IN  IF Get(price_policy, "payment_methods", <<>>) # <<>>
        THEN Emitted(<<
                  Phrase("Payment methods ", payment_methods),
                  Phrase("What payment methods do you accept ", payment_methods),
                  Phrase("How do I pay ", payment_methods),
                  Phrase("Payment methods accept hain ", payment_methods),
                  Phrase("Kaun se payment methods accept hain ", payment_methods),
                  Phrase("Payment kaise karni hai ", payment_methods)
               >>, Repeat([type |-> "payment_methods"], 6))
        ELSE Nothing

ProcessChunks(data) ==
    LET project_process == Get(data, "project_process", EmptyDict)
        process_en == Join(" ", Get(project_process, "english", <<>>))
        process_ur == Join(" ", Get(project_process, "urdu", <<>>))
    IN  Both(IF Get(project_process, "english", <<>>) # <<>>
             THEN Emitted(<<
                  Phrase("Project process development workflow steps ", process_en),
                  Phrase("How does your process work development ", process_en),
                  Phrase("Development process workflow steps ", process_en),
                  Phrase("Aapka development process kya hai steps ", process_en),
                  Phrase("Development kaise hoti hai process ", process_en),
                  Phrase("Aap projects kaise handle karte hain development process ", process_en),
                  Phrase("Development methodology process workflow ", process_en),
                  Phrase("What is your development methodology process ", process_en),
                  Phrase("Aapka process kya hai development workflow ", process_en),
                  Phrase("Process kya hai development steps ", process_en),
                  Phrase("How do you handle projects development process ", process_en),
                  Phrase("Project handling process development workflow ", process_en)
                    >>, Repeat([type |-> "project_process"], 12))
             ELSE Nothing,
             IF Get(project_process, "urdu", <<>>) # <<>>
             THEN Emitted(<<
                  Phrase("Project process Urdu ", process_ur),
                  Phrase("Development process Urdu ", process_ur)
                    >>, Repeat([type |-> "project_process"], 2))
             ELSE Nothing)

\* the question-like variations of one FAQ topic (the elif chain)
FaqVariations(key, answer) ==
    CASE key = "nda" ->
           <<Phrase("Do you sign NDA ", answer),
              Phrase("Kya aap NDA sign karte hain ", answer)>>
      [] key = "source_code" ->
           <<Phrase("Will I get source code ", answer),
              Phrase("Kya mujhe source code milega ", answer),
              Phrase("Do you give documentation ", answer),
              Phrase("Kya aap documentation dete hain ", answer),
              Phrase("Kya aap documentation provide karte hain ", answer),
              Phrase("Documentation provide karte hain ", answer),
              Phrase("Do you provide documentation ", answer)>>
      [] key = "timeline" ->
           <<Phrase("Project timeline delivery time ", answer),
              Phrase("Project kitne time mein complete hoga ", answer),
              Phrase("Delivery time kya hai ", answer),
              Phrase("Typical timeline kya hai ", answer)>>
      [] key = "technologies" ->
           <<Phrase("Which technologies do you use ", answer),
              Phrase("Aap kaun se technologies use karte hain ", answer),
              Phrase("Aap kaun se programming languages use karte hain ", answer)>>
      [] key = "hosting" ->
           <<Phrase("Do you provide hosting ", answer),
              Phrase("Kya aap hosting provide karte hain ", answer)>>
      [] key = "maintenance" ->
           <<Phrase("Do you provide maintenance ", answer),
              Phrase("Kya aap maintenance provide karte hain ", answer)>>
      [] key = "support" ->
           <<Phrase("Do you provide customer support ", answer),
              Phrase("Kya aap customer support dete hain ", answer),
              Phrase("Support policy kya hai ", answer)>>
      [] key = "revisions" ->
           <<Phrase("How many revisions do you offer ", answer),
              Phrase("Kitne revisions milte hain ", answer)>>
      [] key = "payment_terms" ->
           <<Phrase("Do you take advance payment ", answer),
              Phrase("Kya aap advance payment lete hain ", answer)>>
      [] key = "invoice" ->
           <<Phrase("Do you provide invoice ", answer),
              Phrase("Do you give invoice ", answer),
              Phrase("Kya aap invoice dete hain ", answer),
              Phrase("Kya aap invoice provide karte hain ", answer),
              Phrase("Invoice provide karte hain ", answer),
              Phrase("Do you send invoice ", answer)>>
      [] key = "international" ->
           <<Phrase("Do you accept international payments ", answer),
              Phrase("Kya aap international payments accept karte hain ", answer),
              Phrase("international ", answer)>>
      [] key = "pricing" ->
           <<Phrase("What are your prices ", answer),
              Phrase("How much does it cost ", answer),
              Phrase("What is your pricing model ", answer),
              Phrase("Kitna paisa lagega ", answer),
              Phrase("Price kya hai ", answer),
              Phrase("Pricing model kya hai ", answer)>>
      [] key = "team_experience" ->
           <<Phrase("How experienced is your team ", answer),
              Phrase("Aapki team kitni experienced hai ", answer),
              Phrase("Team structure kya hai ", answer),
              Phrase("What is your team structure ", answer)>>
      [] key = "communication" ->
           <<Phrase("How can I contact you ", answer),
              Phrase("Aap se kaise contact kar sakte hain ", answer),
              Phrase("Kya aapke paas WhatsApp hai ", answer),
              Phrase("Kya hum call par baat kar sakte hain ", answer)>>
      [] OTHER -> <<>>

\* one pass of the loop over faq_answers.items()
FaqItemChunks(key, answer) ==
    LET key_clean == Replace(key, "_", " ")
    IN  IF answer # ""
        THEN Emitted(<<Phrase(key_clean \o " ", answer)>> \o FaqVariations(key, answer),
                     <<[type |-> "faq", topic |-> key]>>)
        ELSE Nothing

RECURSIVE FaqItemsChunks(_)
FaqItemsChunks(items) ==
    IF items = <<>> THEN Nothing
    ELSE Both(FaqItemChunks(Head(items)[1], Head(items)[2]), FaqItemsChunks(Tail(items)))

FaqChunks(data) == FaqItemsChunks(Get(data, "faq_answers", <<>>))

\* comment.replace(company_name, "the company").replace("Softerio Solutions", "the company")
CleanComment(comment, company_name) ==
    Replace(Replace(comment, company_name, "the company"), "Softerio Solutions", "the company")

\* one pass of the loop over testimonials
TestimonialChunks(testimonial, company_name) ==
    LET comment == Get(testimonial, "comment", "")
        comment_clean == CleanComment(comment, company_name)
    IN  IF comment # ""
        THEN Emitted(<<Phrase("Client review feedback testimonial customer experience story ", comment_clean)>>, <<[type |-> "testimonial"]>>)
        ELSE Nothing

RECURSIVE EachTestimonialChunks(_, _)
EachTestimonialChunks(testimonials, company_name) ==
    IF testimonials = <<>> THEN Nothing
    ELSE Both(TestimonialChunks(Head(testimonials), company_name),
              EachTestimonialChunks(Tail(testimonials), company_name))

TestimonialsChunks(data) ==
    EachTestimonialChunks(Get(data, "testimonials", <<>>), CompanyNameOf(data))

\* _build_dataset_chunks: everything the field groups append, in order
BuiltFrom(data) ==
    Both(NameChunks(data),
    Both(DescriptionChunks(data),
    Both(FoundedChunks(data),
    Both(TeamSizeChunks(data),
    Both(InternationalChunks(data),
    Both(PortfolioChunks(data),
    Both(ContactChunks(data),
    Both(ServicesChunks(data),
    Both(ValuesChunks(data),
    Both(PaymentChunks(data),
    Both(ProcessChunks(data),
    Both(FaqChunks(data),
         TestimonialsChunks(data)))))))))))))

\* chunks.append(f"..."): the corpus holds the texts only
TextsOf(phrases) == [i \in 1..Len(phrases) |-> phrases[i].text]

\* _build_dataset_chunks: what it assigns to self.dataset_chunks and
\* self.chunk_metadata
build_dataset_chunks(data) ==
    LET b == BuiltFrom(data)
    IN  [chunks |-> TextsOf(b.phrases), metadata |-> b.metadata]

(***************************************************************************)
(* The Similarity Ranker: _find_relevant_chunks.                           *)
(***************************************************************************)

\* similarity > 0.30, in hundredths
Threshold == 30

\* top_k * 5
OverFetch == 5

\* chat ranks with top_k=3
ChatTopK == 3

NoneModel == "None"
MiniLM == "all-MiniLM-L6-v2"

\* chunk_embeddings is None
NoEmbeddings == [is_none |-> TRUE, rows |-> <<>>]

\* the vector the provider yields for a text
EmbeddingOf(text) == [of |-> text]

\* embedding_model.encode(texts): one vector per text, in order
encode(texts) ==
    [is_none |-> FALSE, rows |-> [i \in 1..Len(texts) |-> EmbeddingOf(texts[i])]]

\* s[:k]
Take(s, k) == SubSeq(s, 1, IF k < Len(s) THEN k ELSE Len(s))

\* s[::-1]
RECURSIVE Reversed(_)
Reversed(s) == IF s = <<>> THEN <<>> ELSE Reversed(Tail(s)) \o <<Head(s)>>

\* the order np.argsort puts two indices in: by similarity, and equal
\* similarities in the sort's own order; tie selects one of two such orders
SortsBefore(similarities, tie, j, i) ==
    \/ similarities[j] < similarities[i]
    \/ /\ similarities[j] = similarities[i]
       /\ IF tie = "stable" THEN j < i ELSE j > i

RECURSIVE InsertIndex(_, _, _, _)
InsertIndex(similarities, tie, sorted, i) ==
    IF sorted = <<>> THEN <<i>>
    ELSE IF SortsBefore(similarities, tie, Head(sorted), i)
         THEN <<Head(sorted)>> \o InsertIndex(similarities, tie, Tail(sorted), i)
         ELSE <<i>> \o sorted

RECURSIVE ArgSortUpTo(_, _, _)
ArgSortUpTo(similarities, tie, n) ==
    IF n = 0 THEN <<>>
    ELSE InsertIndex(similarities, tie, ArgSortUpTo(similarities, tie, n - 1), n)

\* the indices in corpus order: no argsort
Unsorted(similarities, tie) == [i \in 1..Len(similarities) |-> i]

\* np.argsort(similarities): the indices by ascending similarity
ArgSort(similarities, tie) == ArgSortUpTo(similarities, tie, Len(similarities))

\* np.argsort(similarities)[::-1][:top_k * 5]
TopIndices(similarities, tie, top_k) ==
    Take(Reversed(ArgSort(similarities, tie)), top_k * OverFetch)

\* the threshold test with >= in place of >
AtOrAboveThreshold(similarity) == similarity >= Threshold

\* if similarity > 0.30
AboveThreshold(similarity) == similarity > Threshold

\* the loop over top_indices that fills relevant
Relevant(similarities, top_indices) ==
    SelectSeq(top_indices, LAMBDA idx : AboveThreshold(similarities[idx]))

\* where a stable sort puts idx among the matches sorted so far: after every
\* match that does not come later by key
RECURSIVE InsertMatch(_, _, _, _)
InsertMatch(similarities, descending, sorted, idx) ==
    IF sorted = <<>> THEN <<idx>>
    ELSE IF (IF descending
             THEN similarities[Head(sorted)] >= similarities[idx]
             ELSE similarities[Head(sorted)] <= similarities[idx])
         THEN <<Head(sorted)>> \o InsertMatch(similarities, descending, Tail(sorted), idx)
         ELSE <<idx>> \o sorted

RECURSIVE StableSort(_, _, _, _)
StableSort(similarities, descending, relevant, n) ==
    IF n = 0 THEN <<>>
    ELSE InsertMatch(similarities, descending,
                     StableSort(similarities, descending, relevant, n - 1), relevant[n])

\* the final sort ascending: reverse=True left out
SortedAscending(similarities, relevant) ==
    StableSort(similarities, FALSE, relevant, Len(relevant))

\* relevant.sort(reverse=True, key=lambda x: x[1]): stable, so equal
\* similarities keep the order they were found in
SortedBySimilarity(similarities, relevant) ==
    StableSort(similarities, TRUE, relevant, Len(relevant))

\* the indices of the chunks returned, best first: relevant[:top_k] after the sort
RankedIndices(similarities, tie, top_k) ==
    Take(SortedBySimilarity(similarities,
                            Relevant(similarities, TopIndices(similarities, tie, top_k))),
         top_k)

\* what a call of _find_relevant_chunks yields: the list returned (value, with
\* the corpus index of each match beside it), whether the provider's encode was
\* called, and whether an exception left the method
Found(indices, chunks, similarities, encode_called) ==
    [raised |-> FALSE,
     value |-> [r \in 1..Len(indices) |-> <<chunks[indices[r]], similarities[indices[r]]>>],
     indices |-> indices,
     encode_called |-> encode_called]

\* the search without its except clause: the exception leaves the method
SearchErrorPropagates(encode_called) ==
    [raised |-> TRUE, value |-> <<>>, indices |-> <<>>, encode_called |-> encode_called]

\* except Exception: return []
SearchError(encode_called) ==
    [raised |-> FALSE, value |-> <<>>, indices |-> <<>>, encode_called |-> encode_called]

\* if self.embedding_model is None or self.chunk_embeddings is None
Unavailable(self) == self.embedding_model = NoneModel \/ self.chunk_embeddings.is_none

\* _find_relevant_chunks from cosine_similarity on, the question encoded
Ranked(self, top_k, enc) ==
    IF Len(self.chunk_embeddings.rows) = 0
    THEN SearchError(TRUE)
    ELSE LET similarities == enc.similarities
             top_indices  == TopIndices(similarities, enc.tie, top_k)
         IN  IF \E r \in 1..Len(top_indices) : top_indices[r] > Len(self.dataset_chunks)
             THEN SearchError(TRUE)
             ELSE Found(RankedIndices(similarities, enc.tie, top_k),
                        self.dataset_chunks, similarities, TRUE)

\* _find_relevant_chunks(question, top_k).  self holds the engine's fields; enc
\* is what the provider does with this question: enc.ok says whether encode
\* returns, enc.similarities are the cosine similarities of the question to the
\* rows of chunk_embeddings, enc.tie the order argsort gives equal values.
\* cosine_similarity raises on a matrix without rows, and an index past the
\* end of dataset_chunks raises: both end in the except clause
find_relevant_chunks(self, question, top_k, enc) ==
    IF Unavailable(self)
    THEN Found(<<>>, self.dataset_chunks, <<>>, FALSE)
    ELSE IF ~enc.ok
         THEN SearchError(TRUE)
         ELSE Ranked(self, top_k, enc)

(***************************************************************************)
(* The Chat Orchestrator: chat, and the /chat handler of src/app.py.       *)
(***************************************************************************)

PleaseAsk == "Please ask me something about Softerio Solutions!"

BeMoreSpecific ==
    "I understand your question. Let me help you with information about Softerio Solutions. Could you be more specific?"

PleaseEnter == "Please enter a message!"

\* what a call of chat yields: the string returned, the ranked list it looked
\* at, whether encode was called, whether an exception left the method
Answered(response, found) ==
    [raised |-> found.raised,
     response |-> IF found.raised THEN "" ELSE response,
     status |-> "",
     value |-> found.value,
     indices |-> found.indices,
     encode_called |-> found.encode_called]

NotSearched == Found(<<>>, <<>>, <<>>, FALSE)

\* chat without the test for an empty list: relevant_chunks[0] raises
ChatWithoutEmptyCheck(self, user_input, enc) ==
    LET stripped == Strip(user_input)
        found    == find_relevant_chunks(self, stripped, ChatTopK, enc)
    IN  IF stripped = ""
        THEN Answered(PleaseAsk, NotSearched)
        ELSE IF found.value = <<>>
             THEN Answered("", [found EXCEPT !.raised = TRUE])
             ELSE Answered(extract_answer_from_chunk(found.value[1][1]), found)

\* chat with the input test made before stripping
ChatWithoutStrip(self, user_input, enc) ==
    LET found == find_relevant_chunks(self, user_input, ChatTopK, enc)
    IN  IF user_input = ""
        THEN Answered(PleaseAsk, NotSearched)
        ELSE IF found.raised \/ found.value = <<>>
             THEN Answered(BeMoreSpecific, found)
             ELSE Answered(extract_answer_from_chunk(found.value[1][1]), found)

\* chat taking the last of the ranked chunks, not the first
ChatTakingLast(self, user_input, enc) ==
    LET stripped == Strip(user_input)
        found    == find_relevant_chunks(self, stripped, ChatTopK, enc)
    IN  IF stripped = ""
        THEN Answered(PleaseAsk, NotSearched)
        ELSE IF found.raised \/ found.value = <<>>
             THEN Answered(BeMoreSpecific, found)
             ELSE Answered(extract_answer_from_chunk(found.value[Len(found.value)][1]), found)

\* chat(user_input)
chat(self, user_input, enc) ==
    LET stripped == Strip(user_input)
        found    == find_relevant_chunks(self, stripped, ChatTopK, enc)
    IN  IF stripped = ""
        THEN Answered(PleaseAsk, NotSearched)
        ELSE IF found.raised \/ found.value = <<>>
             THEN Answered(BeMoreSpecific, found)
             ELSE Answered(extract_answer_from_chunk(found.value[1][1]), found)

\* the /chat handler: request.is_json says whether request.json is a dict (the
\* handler's except clause answers the AttributeError of None.get), and
\* request.json is that dict
http_chat(self, request, enc) ==
    LET user_message == Strip(Get(request.json, "message", ""))
        answered     == chat(self, user_message, enc)
    IN  IF ~request.is_json
        THEN [Answered("Sorry, an error occurred: 'NoneType' object has no attribute 'get'",
                       NotSearched) EXCEPT !.status = "error"]
        ELSE IF user_message = ""
             THEN Answered(PleaseEnter, NotSearched)
        ELSE IF answered.raised
             THEN [Answered("Sorry, an error occurred", answered)
                     EXCEPT !.status = "error", !.raised = FALSE,
                            !.response = "Sorry, an error occurred"]
             ELSE [answered EXCEPT !.status = "success"]

(***************************************************************************)
(* The engine as a state machine.                                          *)
(***************************************************************************)

VARIABLES
    SEMANTIC_SEARCH_AVAILABLE,  \* the module-level flag set by the import probe
    data_file,                  \* what company_data.json holds when it is read
    pc,                         \* "start" before CompanyChatbot() runs, "ready" after
    company_data,               \* self.company_data
    embedding_model,            \* self.embedding_model
    dataset_chunks,             \* self.dataset_chunks
    chunk_metadata,             \* self.chunk_metadata
    chunk_embeddings,           \* self.chunk_embeddings
    built,                      \* the engine's fields as construction left them
    startup,                    \* how the provider behaved during construction
    chunk_builds,               \* calls of _build_dataset_chunks so far
    batch_encodes,              \* batch encode calls over the corpus so far
    encode_calls,               \* single-question encode calls so far
    failures,                   \* of these, the ones that raised
    calls,                      \* calls served since construction
    call,                       \* the last call: its inputs and what it yielded
    threads                     \* the request threads: where each is in chat

vars == <<SEMANTIC_SEARCH_AVAILABLE, data_file, pc, company_data, embedding_model,
          dataset_chunks, chunk_metadata, chunk_embeddings, built, startup,
          chunk_builds, batch_encodes, encode_calls, failures, calls, call, threads>>

fields == <<company_data, embedding_model, dataset_chunks, chunk_metadata, chunk_embeddings>>

environment == <<SEMANTIC_SEARCH_AVAILABLE, data_file, built, startup, chunk_builds, batch_encodes>>

\* the object the methods are called on
Self ==
    [company_data     |-> company_data,
     embedding_model  |-> embedding_model,
     dataset_chunks   |-> dataset_chunks,
     chunk_metadata   |-> chunk_metadata,
     chunk_embeddings |-> chunk_embeddings]

\* load_company_data: a missing file and invalid JSON both give {}
load_company_data(file) == IF file.state = "ok" THEN file.content ELSE EmptyDict

\* __init__ with the embeddings computed before the chunks are built
ConstructedEncodingFirst(file, available, load_ok, batch_ok) ==
    LET data   == load_company_data(file)
        b      == build_dataset_chunks(data)
        usable == available /\ load_ok /\ batch_ok
    IN  [company_data     |-> data,
         embedding_model  |-> IF usable THEN MiniLM ELSE NoneModel,
         dataset_chunks   |-> b.chunks,
         chunk_metadata   |-> b.metadata,
         chunk_embeddings |-> IF usable THEN encode(<<>>) ELSE NoEmbeddings]

\* __init__: the fields it leaves.  available is SEMANTIC_SEARCH_AVAILABLE,
\* load_ok whether SentenceTransformer(...) returns, batch_ok whether the batch
\* encode returns; the except clause resets embedding_model to None
Constructed(file, available, load_ok, batch_ok) ==
    LET data   == load_company_data(file)
        b      == build_dataset_chunks(data)
        usable == available /\ load_ok /\ batch_ok
    IN  [company_data     |-> data,
         embedding_model  |-> IF usable THEN MiniLM ELSE NoneModel,
         dataset_chunks   |-> b.chunks,
         chunk_metadata   |-> b.metadata,
         chunk_embeddings |-> IF usable THEN encode(b.chunks) ELSE NoEmbeddings]

\* no call made yet
NoCall ==
    [op |-> "none", input |-> "", index |-> 0, top_k |-> 0,
     enc |-> [ok |-> TRUE, similarities |-> <<>>, tie |-> "stable"],
     raised |-> FALSE, response |-> "", status |-> "", value |-> <<>>,
     indices |-> <<>>, encode_called |-> FALSE]

Called(op, input, top_k, enc, r) ==
    [op |-> op, input |-> input, index |-> 0, top_k |-> top_k, enc |-> enc,
     raised |-> r.raised, response |-> r.response, status |-> r.status,
     value |-> r.value, indices |-> r.indices, encode_called |-> r.encode_called]

\* chatbot = CompanyChatbot(): the whole of __init__
Construct ==
    /\ pc = "start"
    /\ \E load_ok \in BOOLEAN, batch_ok \in BOOLEAN :
         LET c == Constructed(data_file, SEMANTIC_SEARCH_AVAILABLE, load_ok, batch_ok)
         IN  /\ company_data' = c.company_data
             /\ embedding_model' = c.embedding_model
             /\ dataset_chunks' = c.dataset_chunks
             /\ chunk_metadata' = c.chunk_metadata
             /\ chunk_embeddings' = c.chunk_embeddings
             /\ built' = c
             /\ startup' = IF ~SEMANTIC_SEARCH_AVAILABLE THEN "import_failed"
                           ELSE IF ~load_ok THEN "load_failed"
                           ELSE IF ~batch_ok THEN "encode_failed"
                           ELSE "ok"
             /\ chunk_builds' = chunk_builds + 1
             /\ batch_encodes' = batch_encodes
                                 + (IF SEMANTIC_SEARCH_AVAILABLE /\ load_ok THEN 1 ELSE 0)
    /\ pc' = "ready"
    /\ UNCHANGED <<SEMANTIC_SEARCH_AVAILABLE, data_file, encode_calls, failures, calls, call, threads>>

(***************************************************************************)
(* Bounds and the inputs drawn within them.                                *)
(***************************************************************************)

\* calls of chat and of the /chat handler followed in one behaviour
MaxCalls == 2

\* the largest corpus the ranker is tried on with every score assignment
MaxCorpus == 6

\* the largest top_k the ranker is called with
MaxTopK == 2

\* similarities in hundredths: below, at and above the threshold
Scores == {29, 30, 31, 32}

TieOrders == {"stable", "reversed"}

\* the file read by load_company_data
FileOf(record) == [state |-> "ok", content |-> record]
MissingFile == [state |-> "missing", content |-> EmptyDict]
InvalidFile == [state |-> "invalid", content |-> EmptyDict]

RecNameOnly == [company_name |-> "Acme Corp"]

RecNameAndReviews ==
    [company_name |-> "Acme Corp",
     testimonials |-> <<[comment |-> "Acme Corp delivered on time"],
                        [comment |-> "Great team"]>>]

RecDescribed ==
    [company_name |-> "Acme Corp",
     company_description |-> "We build software",
     founded |-> "2018"]

RecServices ==
    [services |-> <<[name |-> "Web Development", details |-> "Sites and shops"],
                    [name |-> "Mobile Apps"]>>]

RecFaqOnly ==
    [faq_answers |-> <<<<"refund_policy", "No refunds">>, <<"nda", "Yes we sign">>>>]

RecFull ==
    [company_name |-> "Acme Corp",
     company_description |-> "We build software",
     founded |-> "2018",
     team_size |-> "25+",
     countries_served |-> <<"USA", "UK">>,
     portfolio |-> [portfolio_link |-> "https://p.example",
                    portfolio_message_en |-> "See our work"],
     contact |-> [email |-> "a@b.c", phone |-> "123",
                  address |-> "1 Main St", website |-> "w.example"],
     services |-> <<[name |-> "Web Development", details |-> "Sites",
                     sub_services |-> <<"Shops", "Blogs">>],
                    [name |-> "Mobile App Development", details |-> "Apps"],
                    [name |-> "AI and Cloud UI/UX Design", details |-> "All"],
                    [name |-> "Consulting"]>>,
     additional_info |-> [company_values |-> <<"Honesty", "Quality">>],
     price_policy |-> [payment_methods |-> <<"Bank", "PayPal">>],
     project_process |-> [english |-> <<"Plan", "Build">>, urdu |-> <<"Soch", "Banao">>],
     faq_answers |-> <<<<"nda", "Yes NDA">>, <<"source_code", "Yes code">>,
                       <<"timeline", "2 weeks">>, <<"technologies", "Python">>,
                       <<"hosting", "Yes h">>, <<"maintenance", "Yes m">>,
                       <<"support", "24/7">>, <<"revisions", "3">>,
                       <<"payment_terms", "50%">>, <<"invoice", "Yes i">>,
                       <<"international", "Yes intl">>, <<"pricing", "Depends">>,
                       <<"team_experience", "5 years">>, <<"communication", "WhatsApp">>,
                       <<"refund_policy", "No refunds">>, <<"empty", "">>>>,
     testimonials |-> <<[comment |-> "Acme Corp is great. Softerio Solutions too"],
                        [comment |-> ""],
                        [author |-> "x"],
                        [comment |-> "Nice"]>>]

RecContactOnly == [contact |-> [email |-> "a@b.c"]]

RecReviewsNoName == [testimonials |-> <<[comment |-> "ab"]>>]

\* a company whose name is a word of the placeholder "the company"
RecNamedCompany ==
    [company_name |-> "company",
     testimonials |-> <<[comment |-> "company did well"]>>]

\* a record whose corpus is n testimonial chunks
ReviewComments == "abcdefghijklmnop"
RecReviews(n) ==
    [testimonials |-> [i \in 1..n |-> [comment |-> SubSeq(ReviewComments, 1, i)]]]

\* the records the engine is constructed from and queried on
ServedRecords == {RecNameOnly, RecNameAndReviews, RecDescribed, RecServices}

\* the records the builder and the extractor are tried on
BuiltRecords ==
    ServedRecords \cup {RecFaqOnly, RecFull, RecContactOnly, RecReviewsNoName,
                         RecNamedCompany}

\* the records the ranker is tried on
RankedRecords == {RecReviews(n) : n \in 1..MaxCorpus}

FilesOf(records) == {FileOf(r) : r \in records} \cup {MissingFile, InvalidFile}

\* user inputs: blank ones, and questions with and without blanks around them
Questions == {"", " \t\n", "What is the company name?", "  services? "}

\* request bodies of POST /chat
Requests ==
    {[is_json |-> TRUE, json |-> [message |-> q]] : q \in {"", " \t\n", "  services? "}}
    \cup {[is_json |-> TRUE, json |-> EmptyDict], [is_json |-> FALSE, json |-> EmptyDict]}

\* an encode call that raises
EncodeFails == [ok |-> FALSE, similarities |-> <<>>, tie |-> "stable"]

\* n similarities with at most one that differs from the rest
OneHot(n, hot, a, base) == [i \in 1..n |-> IF i = hot THEN a ELSE base]

SomeSimilarities(n) ==
    IF n = 0 THEN {<<>>}
    ELSE {OneHot(n, hot, a, base) : hot \in {1, n}, a \in {30, 32}, base \in {29, 31}}

\* what the provider may do with a question put to a served engine
SomeEncodings(n) ==
    {EncodeFails} \cup
    {[ok |-> TRUE, similarities |-> s, tie |-> "stable"] : s \in SomeSimilarities(n)}

\* every score assignment to a corpus of n chunks
AllEncodings(n) ==
    {EncodeFails} \cup
    {[ok |-> TRUE, similarities |-> s, tie |-> tie] :
        s \in [1..n -> Scores], tie \in TieOrders}

\* the texts the extractor is tried on besides the chunks: every listed prefix
\* alone, followed by a payload, by blanks, and texts no prefix matches
Tails == {"", " ", "  \t", "X", " Acme Corp ", "by company X", "is Acme"}

Texts ==
    {patterns_to_remove[i] \o tail : i \in 1..Len(patterns_to_remove), tail \in Tails}
    \cup {"nothing listed", " Company name x", "x", " ", "Service", "Services"}

(***************************************************************************)
(* The operations.                                                         *)
(***************************************************************************)

Rows == Len(chunk_embeddings.rows)

\* response = chatbot.chat(user_input), the whole call.  degrading is FALSE in
\* the code: a failed encode changes no field
ChatStep(degrading) ==
    /\ pc = "ready"
    /\ calls < MaxCalls
    /\ \E user_input \in Questions, enc \in SomeEncodings(Rows) :
         LET r == chat(Self, user_input, enc)
         IN  /\ call' = Called("chat", user_input, ChatTopK, enc, r)
             /\ encode_calls' = encode_calls + (IF r.encode_called THEN 1 ELSE 0)
             /\ failures' = failures + (IF r.encode_called /\ ~enc.ok THEN 1 ELSE 0)
             /\ embedding_model' = IF degrading /\ r.encode_called /\ ~enc.ok
                                   THEN NoneModel ELSE embedding_model
    /\ calls' = calls + 1
    /\ UNCHANGED <<company_data, dataset_chunks, chunk_metadata, chunk_embeddings,
                   pc, environment, threads>>

\* chat, were the except clause to switch the engine off
ChatDegrading == ChatStep(TRUE)

Chat == ChatStep(FALSE)

\* POST /chat on the module-level chatbot of src/app.py, the whole handler
HttpChat ==
    /\ pc = "ready"
    /\ calls < MaxCalls
    /\ \E request \in Requests, enc \in SomeEncodings(Rows) :
         LET r == http_chat(Self, request, enc)
         IN  /\ call' = Called(IF request.is_json THEN "http" ELSE "http_bad_body",
                               Get(request.json, "message", ""), ChatTopK, enc, r)
             /\ encode_calls' = encode_calls + (IF r.encode_called THEN 1 ELSE 0)
             /\ failures' = failures + (IF r.encode_called /\ ~enc.ok THEN 1 ELSE 0)
    /\ calls' = calls + 1
    /\ UNCHANGED <<fields, pc, environment, threads>>

\* _find_relevant_chunks(question, top_k) called on its own, once
FindRelevant ==
    /\ pc = "ready"
    /\ calls = 0
    /\ \E top_k \in 1..MaxTopK, enc \in AllEncodings(Rows) :
         LET found == find_relevant_chunks(Self, "What is the company name?", top_k, enc)
         IN  /\ call' = Called("find", "What is the company name?", top_k, enc,
                               Answered("", found))
             /\ encode_calls' = encode_calls + (IF found.encode_called THEN 1 ELSE 0)
             /\ failures' = failures + (IF found.encode_called /\ ~enc.ok THEN 1 ELSE 0)
    /\ calls' = calls + 1
    /\ UNCHANGED <<fields, pc, environment, threads>>

\* _extract_answer_from_chunk applied to chunk i of the corpus, once
ExtractChunk ==
    /\ pc = "ready"
    /\ calls = 0
    /\ \E i \in 1..Len(dataset_chunks) :
         call' = [NoCall EXCEPT !.op = "extract_chunk", !.index = i,
                                !.input = dataset_chunks[i],
                                !.response = extract_answer_from_chunk(dataset_chunks[i])]
    /\ calls' = calls + 1
    /\ UNCHANGED <<fields, pc, environment, encode_calls, failures, threads>>

\* _extract_answer_from_chunk applied to a text, once
ExtractText ==
    /\ pc = "ready"
    /\ calls = 0
    /\ \E text \in Texts :
         call' = [NoCall EXCEPT !.op = "extract", !.input = text,
                                !.response = extract_answer_from_chunk(text)]
    /\ calls' = calls + 1
    /\ UNCHANGED <<fields, pc, environment, encode_calls, failures, threads>>

\* company names, some of them made of lead-in words
Names == {"Acme Corp", "answer", "Company name X"}

\* a record whose corpus is the six chunks of the company name
RecNamed(name) == [company_name |-> name]

\* the records chat is tried on with every score assignment, and one whose
\* corpus is larger than the ranker's over-fetch
AnsweredRecords ==
    {RecNamed(name) : name \in Names} \cup {RecFaqOnly, RecNameAndReviews, RecDescribed}

\* every score assignment for a small corpus; for a larger one the
\* assignments with at most one score that differs, in both tie orders
EncodingsFor(n) ==
    IF n <= MaxCorpus THEN AllEncodings(n)
    ELSE {EncodeFails} \cup
         {[ok |-> TRUE, similarities |-> s, tie |-> tie] :
             s \in SomeSimilarities(n), tie \in TieOrders}

\* chatbot.chat(user_input) with a question that is not blank, once
Answer ==
    /\ pc = "ready"
    /\ calls = 0
    /\ \E enc \in EncodingsFor(Rows) :
         LET r == chat(Self, "  services? ", enc)
         IN  /\ call' = Called("chat", "  services? ", ChatTopK, enc, r)
             /\ encode_calls' = encode_calls + (IF r.encode_called THEN 1 ELSE 0)
             /\ failures' = failures + (IF r.encode_called /\ ~enc.ok THEN 1 ELSE 0)
    /\ calls' = calls + 1
    /\ UNCHANGED <<fields, pc, environment, threads>>

(***************************************************************************)
(* Concurrent requests.  The Flask server of src/app.py serves each        *)
(* request on a thread of its own, and every thread calls chat on the one  *)
(* module-level chatbot.  A thread's locals are its own; the engine's      *)
(* fields are shared.  One action per step of chat between two reads of    *)
(* the shared fields.                                                      *)
(***************************************************************************)

\* request threads in flight at once
MaxThreads == 2

Threads == 1..MaxThreads

\* the questions the threads put
ThreadQuestions == {" \t\n", "What is the company name?"}

\* what the provider may do with a thread's question: raise, or score the
\* first chunk or the last chunk above the threshold
ThreadEncodings(n) ==
    {EncodeFails} \cup
    (IF n = 0 THEN {[ok |-> TRUE, similarities |-> <<>>, tie |-> "stable"]}
     ELSE {[ok |-> TRUE, similarities |-> OneHot(n, hot, 32, 29), tie |-> "stable"] :
              hot \in {1, n}})

\* a thread that serves no request
Idle ==
    [pc |-> "idle", user_input |-> "", enc |-> EncodeFails, overlapped |-> FALSE,
     question |-> "", relevant_chunks |-> <<>>, best_chunk |-> "", response |-> ""]

\* some other thread is inside chat
OthersInFlight(t) == \E u \in Threads \ {t} : threads[u].pc \notin {"idle", "done"}

\* what the except clause of _find_relevant_chunks does to embedding_model:
\* it assigns no field
AfterSearchErrorSwitchedOff(model) == NoneModel

AfterSearchError(model) == model

\* a request reaches thread t: chat(user_input) is entered.  enc is what the
\* provider will do with this call's question; it is not asked about a blank one
Arrive(t) ==
    /\ pc = "ready"
    /\ threads[t].pc = "idle"
    /\ \E user_input \in ThreadQuestions :
       \E enc \in IF Strip(user_input) = "" THEN {EncodeFails} ELSE ThreadEncodings(Rows) :
         threads' = [threads EXCEPT ![t] =
                        [Idle EXCEPT !.pc = "strip", !.user_input = user_input,
                                     !.enc = enc, !.overlapped = OthersInFlight(t)]]
    /\ UNCHANGED <<fields, pc, environment, encode_calls, failures, calls, call>>

\* user_input = user_input.strip(); if not user_input: return the prompt
StripInput(t) ==
    /\ threads[t].pc = "strip"
    /\ LET stripped == Strip(threads[t].user_input)
       IN  threads' = [threads EXCEPT ![t] =
               IF stripped = ""
               THEN [@ EXCEPT !.pc = "done", !.response = PleaseAsk]
               ELSE [@ EXCEPT !.pc = "guard", !.question = stripped]]
    /\ UNCHANGED <<fields, pc, environment, encode_calls, failures, calls, call>>

\* _find_relevant_chunks is entered and reads embedding_model and
\* chunk_embeddings: return [] if either is None
Guard(t) ==
    /\ threads[t].pc = "guard"
    /\ threads' = [threads EXCEPT ![t] =
           IF Unavailable(Self)
           THEN [@ EXCEPT !.pc = "pick", !.relevant_chunks = <<>>]
           ELSE [@ EXCEPT !.pc = "encode"]]
    /\ UNCHANGED <<fields, pc, environment, encode_calls, failures, calls, call>>

\* self.embedding_model.encode([question]); when it raises the except clause
\* returns []
EncodeQuestion(t) ==
    /\ threads[t].pc = "encode"
    /\ threads' = [threads EXCEPT ![t] =
           IF threads[t].enc.ok
           THEN [@ EXCEPT !.pc = "rank"]
           ELSE [@ EXCEPT !.pc = "pick", !.relevant_chunks = SearchError(TRUE).value]]
    /\ embedding_model' = IF threads[t].enc.ok THEN embedding_model
                          ELSE AfterSearchError(embedding_model)
    /\ encode_calls' = encode_calls + 1
    /\ failures' = failures + (IF threads[t].enc.ok THEN 0 ELSE 1)
    /\ UNCHANGED <<company_data, dataset_chunks, chunk_metadata, chunk_embeddings,
                   pc, environment, calls, call>>

\* cosine_similarity against self.chunk_embeddings, argsort, the threshold
\* loop over self.dataset_chunks, the sort and the cut to top_k
RankChunks(t) ==
    /\ threads[t].pc = "rank"
    /\ threads' = [threads EXCEPT ![t] =
           [@ EXCEPT !.pc = "pick",
                     !.relevant_chunks = Ranked(Self, ChatTopK, threads[t].enc).value]]
    /\ UNCHANGED <<fields, pc, environment, encode_calls, failures, calls, call>>

\* if not relevant_chunks: return the fallback; else best_chunk is the first
PickBest(t) ==
    /\ threads[t].pc = "pick"
    /\ threads' = [threads EXCEPT ![t] =
           IF threads[t].relevant_chunks = <<>>
           THEN [@ EXCEPT !.pc = "done", !.response = BeMoreSpecific]
           ELSE [@ EXCEPT !.pc = "extract",
                          !.best_chunk = threads[t].relevant_chunks[1][1]]]
    /\ UNCHANGED <<fields, pc, environment, encode_calls, failures, calls, call>>

\* answer = self._extract_answer_from_chunk(best_chunk); return answer
ExtractAnswer(t) ==
    /\ threads[t].pc = "extract"
    /\ threads' = [threads EXCEPT ![t] =
           [@ EXCEPT !.pc = "done",
                     !.response = extract_answer_from_chunk(threads[t].best_chunk)]]
    /\ UNCHANGED <<fields, pc, environment, encode_calls, failures, calls, call>>

(***************************************************************************)
(* The specifications.                                                     *)
(***************************************************************************)

\* before CompanyChatbot() runs: the import probe has set the flag, the file
\* holds one of the records
InitWith(files, flags) ==
    /\ SEMANTIC_SEARCH_AVAILABLE \in flags
    /\ data_file \in files
    /\ pc = "start"
    /\ company_data = EmptyDict
    /\ embedding_model = NoneModel
    /\ dataset_chunks = <<>>
    /\ chunk_metadata = <<>>
    /\ chunk_embeddings = NoEmbeddings
    /\ built = Constructed(MissingFile, FALSE, FALSE, FALSE)
    /\ startup = "none"
    /\ chunk_builds = 0
    /\ batch_encodes = 0
    /\ encode_calls = 0
    /\ failures = 0
    /\ calls = 0
    /\ call = NoCall
    /\ threads = [t \in Threads |-> Idle]

\* the engine constructed and then queried through chat and POST /chat
Init == InitWith(FilesOf(ServedRecords), BOOLEAN)
Next == Construct \/ Chat \/ HttpChat
Spec == Init /\ [][Next]_vars

\* the builder run on a record, the extractor applied to a chunk or a text
InitBuild == InitWith(FilesOf(BuiltRecords), BOOLEAN)
NextBuild == Construct \/ ExtractChunk \/ ExtractText
SpecBuild == InitBuild /\ [][NextBuild]_vars

\* the ranker applied to every score assignment of a small corpus
InitRank == InitWith(FilesOf(RankedRecords), {TRUE})
NextRank == Construct \/ FindRelevant
SpecRank == InitRank /\ [][NextRank]_vars

\* chat applied to every score assignment of a small corpus
InitAnswer == InitWith(FilesOf(AnsweredRecords), {TRUE})
NextAnswer == Construct \/ Answer
SpecAnswer == InitAnswer /\ [][NextAnswer]_vars

\* requests served concurrently by the threads of the web server
InitConc == InitWith({FileOf(RecNameAndReviews), MissingFile}, BOOLEAN)
NextConc ==
    \/ Construct
    \/ \E t \in Threads :
         \/ Arrive(t) \/ StripInput(t) \/ Guard(t) \/ EncodeQuestion(t)
         \/ RankChunks(t) \/ PickBest(t) \/ ExtractAnswer(t)
SpecConc == InitConc /\ [][NextConc]_vars

(***************************************************************************)
(* The properties.                                                         *)
(***************************************************************************)

\* the phrase chunk i of the corpus was built as
PhraseOf(i) == BuiltFrom(company_data).phrases[i]

\* C1: for every chunk the builder emits as a lead-in followed by a non-empty
\* payload without blanks around it, the extractor applied to the chunk
\* returns exactly the payload
C1_ExtractReturnsPayload ==
    call.op = "extract_chunk" =>
        LET payload == PhraseOf(call.index).payload
        IN  (payload # "" /\ Strip(payload) = payload) => call.response = payload

\* C2: after the build chunk_metadata has one entry per chunk, and entry i
\* carries the type tag of the field group that appended chunk i
C2_MetadataAligned ==
    pc = "ready" =>
        /\ Len(chunk_metadata) = Len(dataset_chunks)
        /\ \A i \in 1..Len(dataset_chunks) :
             chunk_metadata[i].type = BuiltFrom(company_data).origin[i]

\* C3: every (chunk, score) pair _find_relevant_chunks returns has a score
\* strictly above 0.30, and no chunk at or below 0.30 is among them
C3_ReturnedAboveThreshold ==
    call.op = "find" =>
        \A r \in 1..Len(call.value) :
            /\ call.value[r][2] > 30
            /\ call.enc.similarities[call.indices[r]] > 30

\* C3 witness: a call that returned matches from a corpus with a chunk at
\* exactly 0.30
C3_Witness ==
    /\ call.op = "find"
    /\ Len(call.value) >= 1
    /\ \E i \in 1..Len(call.enc.similarities) : call.enc.similarities[i] = 30

\* C4: the list _find_relevant_chunks returns is ordered by non-increasing
\* similarity
C4_ReturnedNonIncreasing ==
    call.op = "find" =>
        \A r \in 1..(Len(call.value) - 1) : call.value[r][2] >= call.value[r + 1][2]

\* C4 witness: two matches of different similarity were returned
C4_Witness ==
    /\ call.op = "find"
    /\ Len(call.value) >= 2
    /\ call.value[1][2] > call.value[2][2]

\* the pairs (P, Q) of listed prefixes with P a proper prefix of Q
PrefixPairs ==
    {pq \in {<<patterns_to_remove[i], patterns_to_remove[j]>> :
                i \in 1..Len(patterns_to_remove), j \in 1..Len(patterns_to_remove)} :
        pq[1] # pq[2] /\ StartsWith(pq[2], pq[1])}

\* the text after its first n characters, stripped
RestAfter(text, n) == Strip(DropPrefix(text, n))

\* C5 as stated: applied to a text that starts with the longer prefix Q of a
\* pair, the extractor removes exactly Q and strips the rest
C5_LongerPrefixRemoved ==
    call.op \in {"extract", "extract_chunk"} =>
        \A pq \in PrefixPairs :
            StartsWith(call.input, pq[2]) =>
                call.response = RestAfter(call.input, Len(pq[2]))

\* C5 amended: the extractor removes exactly Q and strips the rest, unless
\* nothing but blanks follows Q: then it returns the text unchanged
C5_LongerPrefixRemovedOrFailOpen ==
    call.op \in {"extract", "extract_chunk"} =>
        \A pq \in PrefixPairs :
            StartsWith(call.input, pq[2]) =>
                call.response = IF RestAfter(call.input, Len(pq[2])) # ""
                                THEN RestAfter(call.input, Len(pq[2]))
                                ELSE call.input

\* C5 witness: a text that starts with "Services offered by company " (and so
\* with "Services offered ") lost the longer prefix
C5_Witness ==
    /\ call.op = "extract"
    /\ call.input = "Services offered by company X"
    /\ call.response = "X"

\* the provider was unavailable at construction
Degraded == startup \in {"import_failed", "load_failed", "encode_failed"}

\* C6 as stated: on an engine constructed without the provider every call of
\* chat returns the generic fallback and raises nothing
C6_DegradedAlwaysFallback ==
    (pc = "ready" /\ Degraded /\ call.op = "chat") =>
        ~call.raised /\ call.response = BeMoreSpecific

\* C6 amended: construction completes with the model switched off, and every
\* call of chat raises nothing and returns the generic fallback for a question
\* that is not blank, the prompt for input for a blank one
C6_DegradedFallbackOrPrompt ==
    (pc = "ready" /\ Degraded) =>
        /\ embedding_model = NoneModel
        /\ call.op = "chat" =>
             /\ ~call.raised
             /\ call.response = IF Strip(call.input) = "" THEN PleaseAsk ELSE BeMoreSpecific

\* C6 witness: the batch encode raised at construction, and the second call
\* of chat, with a question and a provider that would answer, got the fallback
C6_Witness ==
    /\ startup = "encode_failed"
    /\ calls = 2
    /\ call.op = "chat"
    /\ Strip(call.input) # ""
    /\ call.enc.ok
    /\ call.response = BeMoreSpecific

\* C7: on a healthy engine a chat call whose encode fails returns the generic
\* fallback and raises nothing, the engine stays as construction left it, and
\* a later chat call whose encode succeeds returns what the engine as
\* constructed returns for that question; no call encodes its question twice
C7_FailedEncodeIsolated ==
    (pc = "ready" /\ startup = "ok") =>
        /\ encode_calls <= calls
        /\ (call.op = "chat" /\ call.encode_called /\ ~call.enc.ok) =>
             ~call.raised /\ call.response = BeMoreSpecific
        /\ failures >= 1 => embedding_model = MiniLM /\ ~chunk_embeddings.is_none
        /\ (failures >= 1 /\ call.op = "chat" /\ call.enc.ok) =>
             /\ ~call.raised
             /\ call.response = chat(built, call.input, call.enc).response

\* C7 witness: after a failed encode a chat call got an answer from the corpus
C7_Witness ==
    /\ startup = "ok"
    /\ failures >= 1
    /\ call.op = "chat"
    /\ call.enc.ok
    /\ call.value # <<>>
    /\ call.response = "Acme Corp"

\* C8: a blank question makes chat, and the /chat handler, return the prompt
\* for input without a lookup: encode is not called and nothing is ranked
C8_BlankInputNoLookup ==
    (call.op \in {"chat", "http"} /\ Strip(call.input) = "") =>
        /\ ~call.encode_called
        /\ call.value = <<>>
        /\ ~call.raised
        /\ call.response = IF call.op = "chat" THEN PleaseAsk ELSE PleaseEnter

\* C8 witness: a question of blanks only put to a healthy engine with a corpus
C8_Witness ==
    /\ startup = "ok"
    /\ Len(dataset_chunks) > 0
    /\ call.op = "chat"
    /\ call.input = " \t\n"
    /\ call.enc.ok
    /\ call.response = PleaseAsk

\* C9 as stated: in every state after construction, for a non-empty record,
\* chunk_embeddings has as many vectors as dataset_chunks has chunks
C9_EmbeddingsAligned ==
    (pc = "ready" /\ DOMAIN company_data # {}) =>
        /\ ~chunk_embeddings.is_none
        /\ Len(chunk_embeddings.rows) = Len(dataset_chunks)

\* C9 amended: the same after a construction in which the provider was
\* imported, the model loaded and the batch encode returned, with vector i the
\* embedding of chunk i; after any other construction chunk_embeddings is None
C9_EmbeddingsAlignedWhenBuilt ==
    (pc = "ready" /\ DOMAIN company_data # {}) =>
        IF startup = "ok"
        THEN /\ ~chunk_embeddings.is_none
             /\ Len(chunk_embeddings.rows) = Len(dataset_chunks)
             /\ \A i \in 1..Len(dataset_chunks) :
                  chunk_embeddings.rows[i] = EmbeddingOf(dataset_chunks[i])
        ELSE chunk_embeddings.is_none

\* C9 witness: a healthy engine over the 26 chunks of a described company,
\* two calls after construction
C9_Witness ==
    /\ startup = "ok"
    /\ calls = 2
    /\ Len(dataset_chunks) = 26
    /\ Len(chunk_embeddings.rows) = 26

\* C10 as stated: chat calls leave the engine's fields unchanged, and the
\* batch build over the corpus happens exactly once, during construction
C10_FrozenBuiltOnce ==
    /\ pc = "start" => calls = 0 /\ batch_encodes = 0
    /\ pc = "ready" => Self = built /\ batch_encodes = 1

\* C10 amended: chat calls leave the engine's fields unchanged; the chunks are
\* built once and the batch encode over them is called at most once, both
\* during construction: once when the provider was imported and the model
\* loaded, never otherwise
C10_FrozenBuiltAtMostOnce ==
    /\ pc = "start" => calls = 0 /\ batch_encodes = 0 /\ chunk_builds = 0
    /\ pc = "ready" =>
         /\ Self = built
         /\ chunk_builds = 1
         /\ batch_encodes = IF startup \in {"ok", "encode_failed"} THEN 1 ELSE 0

\* C10 witness: a healthy engine after a chat call whose encode failed and a
\* second call
C10_Witness ==
    /\ startup = "ok"
    /\ calls = 2
    /\ failures >= 1
    /\ call.op = "chat"
    /\ batch_encodes = 1


\* C11: under every interleaving of the steps of concurrent chat calls on the
\* shared engine, each call returns what chat returns for its question when
\* it runs alone on the engine as constructed, and no step changes a field
C11_ConcurrentCallsIndependent ==
    pc = "ready" =>
        /\ Self = built
        /\ \A t \in Threads :
             threads[t].pc = "done" =>
                 threads[t].response
                     = chat(built, threads[t].user_input, threads[t].enc).response

\* C11 witness: two calls that overlapped and got different answers from the
\* corpus
C11_Witness ==
    /\ threads[1].pc = "done"
    /\ threads[2].pc = "done"
    /\ threads[2].overlapped
    /\ threads[1].response = "Acme Corp"
    /\ threads[2].response = "Great team"


\* the indices of the chunks the testimonial loop appended, in order
TestimonialIndices ==
    SelectSeq([i \in 1..Len(dataset_chunks) |-> i],
              LAMBDA i : BuiltFrom(company_data).origin[i] = "testimonial")

\* the comments of the testimonials that have one, in order
CommentsOf(data) ==
    LET testimonials == Get(data, "testimonials", <<>>)
        comments == [k \in 1..Len(testimonials) |-> Get(testimonials[k], "comment", "")]
    IN  SelectSeq(comments, LAMBDA comment : comment # "")

TestimonialLead == "Client review feedback testimonial customer experience story "

\* C12: for a record with a company_name, the comment part of every
\* testimonial chunk holds no occurrence of the company's name
C12_NameRemovedFromTestimonials ==
    (pc = "ready" /\ CompanyNameOf(company_data) # "") =>
        \A r \in 1..Len(TestimonialIndices) :
            ~Contains(PhraseOf(TestimonialIndices[r]).payload, CompanyNameOf(company_data))

\* C18: for a record with testimonials and no company_name, every testimonial
\* chunk is the lead-in followed by the comment, changed only where it holds
\* "Softerio Solutions"
C18_CommentKeptWithoutName ==
    (pc = "ready" /\ CompanyNameOf(company_data) = "") =>
        /\ Len(TestimonialIndices) = Len(CommentsOf(company_data))
        /\ \A r \in 1..Len(TestimonialIndices) :
             dataset_chunks[TestimonialIndices[r]]
                 = TestimonialLead
                   \o Replace(CommentsOf(company_data)[r], "Softerio Solutions", "the company")


\* the top-level fields of the record, each with the type tags of the chunks
\* built from it
GroupsOf ==
    {<<"company_name", {"company_name"}>>,
     <<"company_description", {"company_description"}>>,
     <<"founded", {"founded"}>>,
     <<"team_size", {"team_size"}>>,
     <<"countries_served", {"international"}>>,
     <<"portfolio", {"portfolio"}>>,
     <<"contact", {"contact", "address"}>>,
     <<"services", {"services_list", "service", "sub_services"}>>,
     <<"additional_info", {"company_values"}>>,
     <<"price_policy", {"payment_methods"}>>,
     <<"project_process", {"project_process"}>>,
     <<"faq_answers", {"faq"}>>,
     <<"testimonials", {"testimonial"}>>}

ContactFields == {"email", "phone", "address", "website"}

\* C13: after the build no chunk is built around an absent field: none of the
\* group of an absent top-level field, no combined contact chunk (it holds all
\* four contact fields) when one of them is absent, no "Portfolio <message>
\* <link>" chunk without a message, no "<name> includes ..." chunk for a
\* service without a name, no "Service <name> <details>" chunk without details
C13_AbsentFieldsSuppressed ==
    pc = "ready" =>
        LET b         == BuiltFrom(company_data)
            contact   == Get(company_data, "contact", EmptyDict)
            portfolio == Get(company_data, "portfolio", EmptyDict)
            services  == Get(company_data, "services", <<>>)
            chunks    == 1..Len(b.phrases)
        IN  /\ Len(dataset_chunks) = Len(b.phrases)
            /\ \A g \in GroupsOf :
                 g[1] \notin DOMAIN company_data =>
                     \A i \in chunks : b.origin[i] \notin g[2]
            /\ (\E f \in ContactFields : f \notin DOMAIN contact) =>
                   \A i \in chunks : b.origin[i] # "contact"
            /\ "portfolio_message_en" \notin DOMAIN portfolio =>
                   \A i \in chunks :
                       b.origin[i] = "portfolio" => b.phrases[i].lead # "Portfolio "
            /\ \A k \in 1..Len(services) :
                 /\ "name" \notin DOMAIN services[k] =>
                        \A i \in chunks :
                            b.origin[i] = "sub_services" => b.phrases[i].lead # " includes "
                 /\ ("name" \in DOMAIN services[k] /\ "details" \notin DOMAIN services[k]) =>
                        \A i \in chunks :
                            b.origin[i] = "service" =>
                                b.phrases[i].text # "Service " \o services[k].name \o " "


\* the chunks whose similarity to the question of the last call is above 0.30
Above == {i \in 1..Len(call.enc.similarities) : call.enc.similarities[i] > 30}

\* chunk i has the greatest similarity of the corpus
Maximal(i) ==
    \A j \in 1..Len(call.enc.similarities) :
        call.enc.similarities[j] <= call.enc.similarities[i]

\* the last call was put to a healthy engine and the provider scored it
Scored == startup = "ok" /\ call.enc.ok /\ Len(call.enc.similarities) = Len(dataset_chunks)

\* C14: for a question that is not blank chat returns the extractor's answer
\* for a chunk of the greatest similarity in the corpus when some chunk is
\* above 0.30, and the generic fallback when none is
C14_BestChunkOrFallback ==
    (call.op = "chat" /\ Scored /\ Strip(call.input) # "") =>
        IF Above # {}
        THEN \E i \in Above :
                /\ Maximal(i)
                /\ call.response = extract_answer_from_chunk(dataset_chunks[i])
        ELSE call.response = BeMoreSpecific

\* C14 witness: in a corpus larger than the over-fetch of 15 the last chunk
\* alone is above 0.30 and chat returned its answer
C14_Witness ==
    /\ call.op = "chat"
    /\ Scored
    /\ Len(dataset_chunks) > ChatTopK * OverFetch
    /\ Above = {Len(dataset_chunks)}
    /\ call.response = "2018"

\* C15: when the top-ranked match is a chunk built from company_name, and the
\* name has no blanks around it, chat returns exactly the name
C15_NameAnsweredExactly ==
    (/\ call.op = "chat"
     /\ call.indices # <<>>
     /\ CompanyNameOf(company_data) # ""
     /\ Strip(CompanyNameOf(company_data)) = CompanyNameOf(company_data)
     /\ BuiltFrom(company_data).origin[call.indices[1]] = "company_name")
        => call.response = CompanyNameOf(company_data)

\* C15 witness: the top match is "Company name is answer" of the company
\* named "answer"
C15_Witness ==
    /\ call.op = "chat"
    /\ call.indices # <<>>
    /\ dataset_chunks[call.indices[1]] = "Company name is answer"
    /\ call.response = "answer"

\* C16: for every text that is not empty the extractor returns a string that
\* is not empty
C16_ExtractNeverEmpty ==
    (call.op \in {"extract", "extract_chunk"} /\ call.input # "") => call.response # ""

\* C16 witness: a listed prefix followed by blanks only comes back whole
C16_Witness ==
    /\ call.op = "extract"
    /\ call.input = "Company name is   \t"
    /\ call.response = call.input

\* the smaller of two numbers
Min(a, b) == IF a < b THEN a ELSE b

\* C17: the result of _find_relevant_chunks has min(top_k, number of chunks
\* above 0.30) matches, all of them distinct chunks, and no chunk left out has
\* a greater similarity than one returned
C17_OverFetchLosesNoMatch ==
    (call.op = "find" /\ Scored) =>
        LET returned == {call.indices[r] : r \in 1..Len(call.indices)}
        IN  /\ Len(call.value) = Min(call.top_k, Cardinality(Above))
            /\ Cardinality(returned) = Len(call.indices)
            /\ \A j \in (1..Len(dataset_chunks)) \ returned, i \in returned :
                 call.enc.similarities[j] <= call.enc.similarities[i]

\* C17 witness: a corpus larger than the over-fetch, every chunk above 0.30,
\* the best of them the one argsort puts first
C17_Witness ==
    /\ call.op = "find"
    /\ Scored
    /\ Len(dataset_chunks) > call.top_k * OverFetch
    /\ Cardinality(Above) = Len(dataset_chunks)
    /\ Len(call.value) = call.top_k
    /\ call.indices[1] = 1
    /\ call.enc.similarities[1] = 32

=============================================================================
